---- MODULE Spec2Model ----
(***************************************************************************)
(* Feature ingestion of django-leaflet-storage: UploadData.form_valid      *)
(* (leaflet_storage/views.py) and smart_decode (leaflet_storage/utils.py). *)
(*                                                                         *)
(* Python values are tagged records [t |-> tag, v |-> payload], so that    *)
(* the dynamic type errors of the code (indexing None, slicing a number)   *)
(* are outcomes of the model.  Numbers are integers: a coordinate c stands *)
(* for c/100 degrees (235 is 2.35).                                        *)
(***************************************************************************)
EXTENDS Integers, Sequences, FiniteSets, TLC

\* ------------------------------------------------------------------------
\* Python values
\* ------------------------------------------------------------------------
PyNone == [t |-> "None", v |-> 0]
\* a key that a dict does not hold
Missing == [t |-> "missing", v |-> 0]
PyNum(n) == [t |-> "num", v |-> n]
\* a text whose characters the code never looks at (the geometry type)
PyStr(s) == [t |-> "str", v |-> s]
\* unicode and bytes carry the sequence of their code points / bytes
PyUnicode(cps) == [t |-> "unicode", v |-> cps]
PyBytes(bs) == [t |-> "bytes", v |-> bs]
PyList(s) == [t |-> "list", v |-> s]
PyDict(f) == [t |-> "dict", v |-> f]

\* the result of evaluating an expression: a value, or an exception
Ok(val) == [ok |-> TRUE, val |-> val]
Raise(exc) == [ok |-> FALSE, val |-> exc]

Min(a, b) == IF a < b THEN a ELSE b

\* a faulty variant: an empty value counts as a value
Truthy_always(x) == TRUE

\* `not value` is false for these
Truthy(x) ==
    CASE x.t = "None" -> FALSE
      [] x.t = "missing" -> FALSE
      [] x.t = "num" -> x.v # 0
      [] x.t = "str" -> x.v # ""
      [] x.t \in {"unicode", "bytes", "list"} -> Len(x.v) > 0
      [] OTHER -> TRUE

\* x[:n] : defined on sequences (list, unicode, bytes), TypeError otherwise
SliceTo(x, n) ==
    IF x.t \in {"list", "unicode", "bytes"}
    THEN Ok([t |-> x.t, v |-> SubSeq(x.v, 1, Min(n, Len(x.v)))])
    ELSE Raise("TypeError")

\* a faulty variant: the altitude is kept
Slice2_keeping_altitude(x) == SliceTo(x, 3)

\* a faulty variant: the slice x[1:3] instead of x[:2]
Slice2_off_by_one(x) ==
    IF x.t \in {"list", "unicode", "bytes"}
    THEN Ok([t |-> x.t, v |-> SubSeq(x.v, 2, Min(3, Len(x.v)))])
    ELSE Raise("TypeError")

\* lambda x: x[:2]
Slice2(x) == SliceTo(x, 2)

\* the items iterating over x yields (a text yields its characters)
Iter(x) ==
    CASE x.t = "list" -> Ok(x.v)
      [] x.t \in {"unicode", "bytes"} ->
            Ok([i \in 1..Len(x.v) |-> [t |-> x.t, v |-> <<x.v[i]>>]])
      [] OTHER -> Raise("TypeError")

\* map(lambda x: x[:2], xs): Python 2 map is eager and gives a list; an
\* exception of the lambda, or of iterating xs, leaves the map
MapSlice2(xs) ==
    LET it == Iter(xs) IN
    IF ~it.ok THEN it
    ELSE IF \E i \in 1..Len(it.val) : ~Slice2(it.val[i]).ok
         THEN Raise("TypeError")
         ELSE Ok(PyList([i \in 1..Len(it.val) |-> Slice2(it.val[i]).val]))

\* map(lambda x: map(lambda y: y[:2], x), xs)
MapMapSlice2(xs) ==
    LET it == Iter(xs) IN
    IF ~it.ok THEN it
    ELSE IF \E i \in 1..Len(it.val) : ~MapSlice2(it.val[i]).ok
         THEN Raise("TypeError")
         ELSE Ok(PyList([i \in 1..Len(it.val) |-> MapSlice2(it.val[i]).val]))

\* ------------------------------------------------------------------------
\* Classification (FEATURE_TO_MODEL) and normalization ("Remove altitude")
\* ------------------------------------------------------------------------
NoKlass == "None"

\* a faulty variant: two entries of the table are swapped
FEATURE_TO_MODEL_swapped(type) ==
    CASE type = "Point" -> "Marker"
      [] type = "LineString" -> "Polygon"
      [] type = "Polygon" -> "Polyline"
      [] OTHER -> NoKlass

\* FEATURE_TO_MODEL.get(type, None)
FEATURE_TO_MODEL(type) ==
    CASE type = "Point" -> "Marker"
      [] type = "LineString" -> "Polyline"
      [] type = "Polygon" -> "Polygon"
      [] OTHER -> NoKlass

\* feature.geometry['type'] : TypeError on None, KeyError without the key
GeometryType(geometry) ==
    IF geometry.t # "dict" THEN Raise("TypeError")
    ELSE IF geometry.v.type.t = "missing" THEN Raise("KeyError")
    ELSE Ok(geometry.v.type.v)

\* feature.geometry['coordinates']
GeometryCoordinates(geometry) ==
    IF geometry.v.coordinates.t = "missing" THEN Raise("KeyError")
    ELSE Ok(geometry.v.coordinates)

\* the new value of feature.geometry['coordinates'] for a geometry of the
\* given type, or the exception the try block catches
NormalizeCoordinates(type, geometry) ==
    LET c == GeometryCoordinates(geometry) IN
    CASE type = "LineString" -> IF c.ok THEN MapSlice2(c.val) ELSE c
      [] type = "Point" -> IF c.ok THEN Slice2(c.val) ELSE c
      [] type = "Polygon" -> IF c.ok THEN MapMapSlice2(c.val) ELSE c
      [] OTHER -> Ok(geometry.v.coordinates)

\* feature.geometry after the assignment
WithCoordinates(geometry, coords) ==
    PyDict([type |-> geometry.v.type, coordinates |-> coords])

\* ------------------------------------------------------------------------
\* GEOSGeometry(simplejson.dumps(feature.geometry)) and latlng.empty
\* ------------------------------------------------------------------------
IsVertex(x) ==
    /\ x.t = "list"
    /\ Len(x.v) >= 2
    /\ \A i \in 1..Len(x.v) : x.v[i].t = "num"

IsVertexList(x) == x.t = "list" /\ \A i \in 1..Len(x.v) : IsVertex(x.v[i])

IsRingList(x) == x.t = "list" /\ \A i \in 1..Len(x.v) : IsVertexList(x.v[i])

IsClosedRing(r) == Len(r.v) >= 4 /\ r.v[1] = r.v[Len(r.v)]

\* What the geometry library can answer for a geometry of a supported type:
\* "error" (the constructor raises), "empty" (a geometry with .empty true) or
\* "valid".  Where the answer depends on the library's version (no
\* coordinates at all; fewer vertices than the kind needs, unclosed ring)
\* every answer a build can give is in the set.
GEOSOutcomes(type, coords) ==
    CASE type = "Point" ->
            IF coords.t = "list" /\ Len(coords.v) = 0 THEN {"error", "empty"}
            ELSE IF IsVertex(coords) THEN {"valid"}
            ELSE {"error"}
      [] type = "LineString" ->
            IF ~IsVertexList(coords) THEN {"error"}
            ELSE IF Len(coords.v) = 0 THEN {"error", "empty"}
            ELSE IF Len(coords.v) = 1 THEN {"error", "valid"}
            ELSE {"valid"}
      [] type = "Polygon" ->
            IF ~IsRingList(coords) THEN {"error"}
            ELSE IF \A i \in 1..Len(coords.v) : Len(coords.v[i].v) = 0
                 THEN {"error", "empty"}
            ELSE IF \E i \in 1..Len(coords.v) : ~IsClosedRing(coords.v[i])
                 THEN {"error", "valid"}
            ELSE {"valid"}
      [] OTHER -> {"error"}

\* ------------------------------------------------------------------------
\* smart_decode (utils.py)
\* ------------------------------------------------------------------------
IsCont(b) == b >= 128 /\ b <= 191

\* bytes.decode('utf-8', 'strict'): the code points, or UnicodeDecodeError
RECURSIVE Utf8Strict(_)
Utf8Strict(bs) ==
    IF Len(bs) = 0 THEN Ok(<<>>)
    ELSE LET b == bs[1]
             n == IF b < 128 THEN 1
                  ELSE IF b >= 194 /\ b <= 223 THEN 2
                  ELSE IF b >= 224 /\ b <= 239 THEN 3
                  ELSE IF b >= 240 /\ b <= 244 THEN 4
                  ELSE 0
         IN
         IF n = 0 \/ Len(bs) < n THEN Raise("UnicodeDecodeError")
         ELSE IF \E i \in 2..n : ~IsCont(bs[i]) THEN Raise("UnicodeDecodeError")
         ELSE IF n = 3 /\ b = 224 /\ bs[2] < 160 THEN Raise("UnicodeDecodeError")
         ELSE IF n = 4 /\ b = 240 /\ bs[2] < 144 THEN Raise("UnicodeDecodeError")
         ELSE IF n = 4 /\ b = 244 /\ bs[2] > 143 THEN Raise("UnicodeDecodeError")
         ELSE LET cp == CASE n = 1 -> b
                          [] n = 2 -> (b - 192) * 64 + (bs[2] - 128)
                          [] n = 3 -> (b - 224) * 4096 + (bs[2] - 128) * 64
                                      + (bs[3] - 128)
                          [] n = 4 -> (b - 240) * 262144 + (bs[2] - 128) * 4096
                                      + (bs[3] - 128) * 64 + (bs[4] - 128)
                  rest == Utf8Strict(SubSeq(bs, n + 1, Len(bs)))
              IN IF rest.ok THEN Ok(<<cp>> \o rest.val) ELSE rest

\* the code point U+FFFD that 'replace' puts for undecodable bytes
ReplacementChar == 65533

\* bytes.decode('utf-8', 'replace'): never fails
RECURSIVE Utf8Replace(_)
Utf8Replace(bs) ==
    IF Len(bs) = 0 THEN <<>>
    ELSE IF \E k \in 1..Min(4, Len(bs)) : Utf8Strict(SubSeq(bs, 1, k)).ok
         THEN LET k == CHOOSE j \in 1..Min(4, Len(bs)) :
                          Utf8Strict(SubSeq(bs, 1, j)).ok
              IN Utf8Strict(SubSeq(bs, 1, k)).val
                 \o Utf8Replace(SubSeq(bs, k + 1, Len(bs)))
         ELSE <<ReplacementChar>> \o Utf8Replace(Tail(bs))

\* s.decode(encoding, errors); a value that is not a str has no usable decode
Decode(s, encoding, errors) ==
    IF s.t # "bytes" THEN Raise("AttributeError")
    ELSE CASE encoding = "utf-8" /\ errors = "strict" ->
                 LET r == Utf8Strict(s.v) IN
                 IF r.ok THEN Ok(PyUnicode(r.val)) ELSE r
           [] encoding = "latin-1" -> Ok(PyUnicode(s.v))
           [] OTHER -> Ok(PyUnicode(Utf8Replace(s.v)))

\* a faulty variant: Latin-1 is tried before UTF-8
attempts_latin_first ==
    << <<"latin-1", "strict">>, <<"utf-8", "strict">>, <<"utf-8", "replace">> >>

\* attempts = [('utf-8', 'strict'), ('latin-1', 'strict'), ('utf-8', 'replace')]
attempts ==
    << <<"utf-8", "strict">>, <<"latin-1", "strict">>, <<"utf-8", "replace">> >>

\* the for loop over attempts, from attempt k on
RECURSIVE DecodeFrom(_, _)
DecodeFrom(s, k) ==
    IF k > Len(attempts) THEN s
    ELSE LET r == Decode(s, attempts[k][1], attempts[k][2]) IN
         IF r.ok THEN r.val ELSE DecodeFrom(s, k + 1)

smart_decode(s) == IF s.t = "unicode" THEN s ELSE DecodeFrom(s, 1)

\* ------------------------------------------------------------------------
\* Property mapping: the loop over FIELDS that fills kwargs
\* ------------------------------------------------------------------------
FIELDS ==
    << <<"name", "title">>,
       <<"description", "desc", "text">>,
       <<"color", "hexcolor">> >>

\* the keys a properties mapping of the model may hold
PropKeys ==
    {"name", "title", "description", "desc", "text", "color", "hexcolor",
     "datalayer", "foo"}

\* the keys an options dict of the model may hold: the first item of each
\* entry of FIELDS, and any key of the properties
OptionKeys == {FIELDS[i][1] : i \in 1..Len(FIELDS)} \cup PropKeys

NoOptions == [k \in OptionKeys |-> Missing]

\* the field names of the record kinds, as the models declare them
VARIABLE fields

\* the fields every record kind has: create always gets latlng, datalayer
\* and name
BaseFields == {"id", "name", "options", "datalayer", "latlng"}

\* the fields of Marker, Polyline and Polygon: name, description, color,
\* options, the owning layer and the geometry
ModelFields == BaseFields \cup {"description", "color"}

\* klass._meta.get_all_field_names()
get_all_field_names(klass) == fields

\* candidate in feature.properties
Contains(properties, candidate) ==
    CASE properties.t = "dict" ->
            Ok(candidate \in DOMAIN properties.v
               /\ properties.v[candidate].t # "missing")
      [] properties.t = "list" ->
            Ok(\E i \in 1..Len(properties.v) :
                  properties.v[i].t = "str" /\ properties.v[i].v = candidate)
      [] OTHER -> Raise("TypeError")

\* feature.properties[candidate], once candidate is in feature.properties
GetItem(properties, candidate) ==
    IF properties.t = "dict" THEN Ok(properties.v[candidate])
    ELSE Raise("TypeError")

\* the first candidate of field, from position k on, that is in properties
\* with a true value (0: none); the inner loop reaches its break there
RECURSIVE Winner(_, _, _)
Winner(field, properties, k) ==
    IF k > Len(field) THEN 0
    ELSE IF Contains(properties, field[k]).val
            /\ Truthy(GetItem(properties, field[k]).val)
         THEN k
         ELSE Winner(field, properties, k + 1)

\* whether the loops over FIELDS and candidates raise: properties that
\* cannot be searched, or searched but not indexed by a key
MappingRaises(properties) ==
    \/ ~Contains(properties, FIELDS[1][1]).ok
    \/ \E i \in 1..Len(FIELDS) : \E k \in 1..Len(FIELDS[i]) :
          /\ Contains(properties, FIELDS[i][k]).val
          /\ ~GetItem(properties, FIELDS[i][k]).ok

\* a faulty variant: the value of a field is put into options as well
SetField_both(kwargs, klass, name, value) ==
    [kwargs EXCEPT ![name] = value,
                   !.options =
                      PyDict([(IF @.t = "dict" THEN @.v ELSE NoOptions)
                                 EXCEPT ![name] = value])]

\* kwargs[name] = value, or kwargs['options'][name] = value
SetField(kwargs, klass, name, value) ==
    IF name \in get_all_field_names(klass)
    THEN [kwargs EXCEPT ![name] = value]
    ELSE [kwargs EXCEPT !.options =
             PyDict([(IF @.t = "dict" THEN @.v ELSE NoOptions)
                        EXCEPT ![name] = value])]

\* kwargs after the entries i.. of FIELDS have been handled
RECURSIVE MapFields(_, _, _, _)
MapFields(kwargs, klass, properties, i) ==
    IF i > Len(FIELDS) THEN kwargs
    ELSE LET field == FIELDS[i]
             w == Winner(field, properties, 1)
             next == IF w = 0 THEN kwargs
                     ELSE SetField(kwargs, klass, field[1],
                              smart_decode(GetItem(properties, field[w]).val))
         IN MapFields(next, klass, properties, i + 1)

\* a faulty variant: no default name
DefaultKwargs_without_name(latlng, datalayer) ==
    [latlng |-> latlng, datalayer |-> datalayer.id, name |-> Missing,
     description |-> Missing, color |-> Missing, options |-> Missing]

\* kwargs = {'latlng': latlng, 'datalayer': datalayer, 'name': datalayer.name}
DefaultKwargs(latlng, datalayer) ==
    [latlng |-> latlng, datalayer |-> datalayer.id, name |-> datalayer.name,
     description |-> Missing, color |-> Missing, options |-> Missing]

\* a faulty variant: the keys that no entry of FIELDS lists are copied
\* into options under their own name
BuildKwargs_copying_unknown(klass, latlng, datalayer, properties) ==
    IF MappingRaises(properties) THEN Raise("TypeError")
    ELSE LET kw == MapFields(DefaultKwargs(latlng, datalayer), klass,
                             properties, 1)
             listed == UNION {{FIELDS[i][k] : k \in 1..Len(FIELDS[i])} :
                                 i \in 1..Len(FIELDS)}
             unknown == IF properties.t = "dict"
                        THEN {k \in PropKeys \ listed :
                                 properties.v[k].t # "missing"}
                        ELSE {}
             old == IF kw.options.t = "dict" THEN kw.options.v ELSE NoOptions
         IN Ok(IF unknown = {} THEN kw
               ELSE [kw EXCEPT !.options =
                        PyDict([k \in OptionKeys |->
                                   IF k \in unknown THEN properties.v[k]
                                   ELSE old[k]])])

\* a faulty variant: a number under the key datalayer replaces the layer
BuildKwargs_datalayer_from_properties(klass, latlng, datalayer, properties) ==
    IF MappingRaises(properties) THEN Raise("TypeError")
    ELSE LET kw == MapFields(DefaultKwargs(latlng, datalayer), klass,
                             properties, 1)
         IN Ok(IF properties.t = "dict" /\ properties.v["datalayer"].t = "num"
               THEN [kw EXCEPT !.datalayer = properties.v["datalayer"].v]
               ELSE kw)

\* kwargs as klass.objects.create gets it, or the exception of the loops
BuildKwargs(klass, latlng, datalayer, properties) ==
    IF MappingRaises(properties) THEN Raise("TypeError")
    ELSE Ok(MapFields(DefaultKwargs(latlng, datalayer), klass, properties, 1))

\* ------------------------------------------------------------------------
\* The database connection under transaction.commit_manually
\*   durable    : the committed rows
\*   txn        : the rows as the open outer transaction sees them
\*   savepoints : the stack of open savepoints, each with the rows it saved
\*   commits    : how many times the outer transaction was committed
\*   layers     : the rows of the DataLayer table
\* ------------------------------------------------------------------------
SavepointPos(d, s) ==
    IF \E k \in 1..Len(d.savepoints) : d.savepoints[k].sid = s
    THEN CHOOSE k \in 1..Len(d.savepoints) : d.savepoints[k].sid = s
    ELSE 0

\* transaction.savepoint(): the new savepoint's id is d.nextSid
savepoint(d) ==
    [d EXCEPT !.savepoints = Append(@, [sid |-> d.nextSid, rows |-> d.txn]),
              !.nextSid = @ + 1]

\* a faulty variant: the rows written since the savepoint stay
savepoint_rollback_keeping_rows(d, s) ==
    [d EXCEPT !.savepoints = SubSeq(@, 1, SavepointPos(d, s))]

\* transaction.savepoint_rollback(sid): ROLLBACK TO SAVEPOINT restores the
\* rows saved at sid and destroys the savepoints opened after it
savepoint_rollback(d, s) ==
    [d EXCEPT !.txn = d.savepoints[SavepointPos(d, s)].rows,
              !.savepoints = SubSeq(@, 1, SavepointPos(d, s))]

\* a faulty variant: releasing the savepoint commits the outer transaction
savepoint_commit_committing(d, s) ==
    [d EXCEPT !.savepoints = SubSeq(@, 1, SavepointPos(d, s) - 1),
              !.durable = d.txn,
              !.commits = @ + 1]

\* transaction.savepoint_commit(sid): RELEASE SAVEPOINT destroys sid and the
\* savepoints opened after it; the rows stay in the outer transaction
savepoint_commit(d, s) ==
    [d EXCEPT !.savepoints = SubSeq(@, 1, SavepointPos(d, s) - 1)]

\* transaction.commit(), when the database accepts it
commit(d) ==
    [d EXCEPT !.durable = d.txn, !.savepoints = <<>>, !.commits = @ + 1]

\* what commit_manually does when form_valid ends by an exception: the
\* pending changes of the transaction are rolled back
rollback(d) == [d EXCEPT !.txn = d.durable, !.savepoints = <<>>]

\* the row klass.objects.create(**kwargs) inserts for feature number i
Row(klass, kwargs, i) ==
    [klass |-> klass, latlng |-> kwargs.latlng, datalayer |-> kwargs.datalayer,
     name |-> kwargs.name, description |-> kwargs.description,
     color |-> kwargs.color, options |-> kwargs.options,
     feature |-> i, partial |-> FALSE]

\* what a create that raises may have left in the transaction: nothing, or
\* an incomplete row (the INSERT was sent, a later statement failed)
PartialRow(klass, kwargs, i) == [Row(klass, kwargs, i) EXCEPT !.partial = TRUE]

\* the outcomes of klass.objects.create
CreateOutcomes == {"created", "raised", "raised_after_write"}

\* the rows of the transaction after create ended with outcome o
AfterCreate(d, klass, kwargs, i, o) ==
    CASE o = "created" -> [d EXCEPT !.txn = Append(@, Row(klass, kwargs, i))]
      [] o = "raised_after_write" ->
            [d EXCEPT !.txn = Append(@, PartialRow(klass, kwargs, i))]
      [] OTHER -> d

\* ------------------------------------------------------------------------
\* Inputs: the decoded features and the target layer
\* ------------------------------------------------------------------------
MaxFeatures == 3

V2(a, b) == PyList(<<PyNum(a), PyNum(b)>>)
V3(a, b, c) == PyList(<<PyNum(a), PyNum(b), PyNum(c)>>)

Geometry(type, coords) == PyDict([type |-> PyStr(type), coordinates |-> coords])

Properties(f) ==
    PyDict([k \in PropKeys |-> IF k \in DOMAIN f THEN f[k] ELSE Missing])

Feature(geometry, properties) ==
    [geometry |-> geometry, properties |-> properties]

\* u"A", u"B", the bytes of "Caf\xe9" (Latin-1) and the empty text
TextA == PyUnicode(<<65>>)
TextB == PyUnicode(<<66>>)
BytesCafe == PyBytes(<<67, 97, 102, 233>>)
TextEmpty == PyUnicode(<< >>)

\* the features a batch is drawn from
Pool ==
    << \* 1: a point with an altitude
       Feature(Geometry("Point", V3(235, 4885, 35)),
               Properties([name |-> TextA, foo |-> TextB])),
       \* 2: a line, one vertex with an altitude; empty name, title in bytes
       Feature(Geometry("LineString", PyList(<<V3(0, 0, 9), V2(100, 100)>>)),
               Properties([name |-> TextEmpty, title |-> BytesCafe,
                           hexcolor |-> TextB])),
       \* 3: a polygon of one closed ring, no property
       Feature(Geometry("Polygon",
                   PyList(<<PyList(<<V2(0, 0), V3(0, 100, 5), V2(100, 100),
                                     V2(0, 0)>>)>>)),
               Properties([desc |-> TextA, datalayer |-> PyNum(2)])),
       \* 4: a polygon without coordinates
       Feature(Geometry("Polygon", PyList(<< >>)), Properties([name |-> TextA])),
       \* 5: a kind that FEATURE_TO_MODEL does not hold
       Feature(Geometry("MultiPoint", PyList(<<V2(0, 0)>>)),
               Properties([name |-> TextA])),
       \* 6: a geometry without type
       Feature(PyDict([type |-> Missing, coordinates |-> V2(0, 0)]),
               Properties([name |-> TextA])),
       \* 7: no geometry
       Feature(PyNone, Properties([name |-> TextA])),
       \* 8: a line whose coordinates are numbers, not vertices
       Feature(Geometry("LineString", V2(1, 2)), Properties([name |-> TextA])),
       \* 9: a valid point whose properties are None
       Feature(Geometry("Point", V2(100, 100)), PyNone),
       \* 10: a point whose coordinates are not numbers
       Feature(Geometry("Point", PyList(<<TextA, TextB>>)),
               Properties([name |-> TextA])) >>

\* form.cleaned_data.get('datalayer')
DataLayerRef == [id |-> 1, name |-> PyUnicode(<<76>>)]

\* datalayer.json
LayerJson(datalayer) == [id |-> datalayer.id, name |-> datalayer.name]

\* a row the layer held before the upload
OldRow ==
    [klass |-> "Marker", latlng |-> Geometry("Point", V2(0, 0)),
     datalayer |-> DataLayerRef.id, name |-> TextB, description |-> Missing,
     color |-> Missing, options |-> Missing, feature |-> 0, partial |-> FALSE]

\* ------------------------------------------------------------------------
\* State of one call of UploadData.form_valid
\* ------------------------------------------------------------------------
VARIABLES
    input,      \* the features as the form handed them over
    features,   \* the same objects, as the loop has changed them in place
    idx,        \* how many features the for loop has taken
    pc,         \* where the call is
    sid, klass, latlng, kwargs, counter,    \* locals of form_valid
    db,         \* the database connection
    before,     \* the committed rows when the call started
    status,     \* per feature: Pending .. Committed, or Skipped
    reason,     \* per feature: why it was skipped
    result      \* what the caller gets

vars == <<fields, input, features, idx, pc, sid, klass, latlng, kwargs, counter, db,
          before, status, reason, result>>

NoResult == [kind |-> "none", count |-> 0, layer |-> Missing, exc |-> "", line |-> 0]

\* the state at the entry of form_valid, whatever the features are
Entry ==
    /\ features = input
    /\ idx = 0
    /\ pc = "loop"
    /\ sid = 0
    /\ klass = NoKlass
    /\ latlng = Missing
    /\ kwargs = Missing
    /\ counter = 0
    /\ before \in {<< >>, <<OldRow>>}
    /\ db = [durable |-> before, txn |-> before, savepoints |-> << >>,
             nextSid |-> 1, commits |-> 0, layers |-> <<DataLayerRef>>]
    /\ status = [i \in 1..Len(input) |-> "Pending"]
    /\ reason = [i \in 1..Len(input) |-> ""]
    /\ result = NoResult

Init ==
    /\ \E n \in 0..MaxFeatures : \E pick \in [1..n -> 1..Len(Pool)] :
          input = [i \in 1..n |-> Pool[pick[i]]]
    /\ fields = ModelFields
    /\ Entry

\* the for loop takes the features one after the other
\* a faulty variant: a feature is stepped over
NextIndex_skipping(i, n) == IF i + 2 <= n THEN i + 2 ELSE i + 1

NextIndex(i, n) == i + 1

\* a faulty variant: the counter is not incremented
Increment_forgotten(c) == c

\* counter += 1
Increment(c) == c + 1

\* a faulty variant: one created feature is reported as none
Response_more_than_one(c, datalayer) ==
    IF c > 1
    THEN [kind |-> "Success", count |-> c, layer |-> LayerJson(datalayer),
          exc |-> "", line |-> 0]
    ELSE [kind |-> "NoValidFeatures", count |-> 0, layer |-> Missing,
          exc |-> "", line |-> 0]

\* the response built from counter after the commit
Response(c, datalayer) ==
    IF c # 0
    THEN [kind |-> "Success", count |-> c, layer |-> LayerJson(datalayer),
          exc |-> "", line |-> 0]
    ELSE [kind |-> "NoValidFeatures", count |-> 0, layer |-> Missing,
          exc |-> "", line |-> 0]

\* an exception nothing in form_valid catches, raised at the given line
Raised(exc, line) ==
    [kind |-> "Raised", count |-> 0, layer |-> Missing, exc |-> exc, line |-> line]

\* for feature in features: sid = transaction.savepoint()
StartFeature ==
    /\ pc = "loop"
    /\ idx < Len(features)
    /\ idx' = NextIndex(idx, Len(features))
    /\ sid' = db.nextSid
    /\ db' = savepoint(db)
    /\ pc' = "classify"
    /\ UNCHANGED <<fields, input, features, klass, latlng, kwargs, counter, before,
                   status, reason, result>>

\* feature.geometry['type'] raises: the exception leaves form_valid, and
\* commit_manually rolls the transaction back
ClassifyRaise ==
    /\ pc = "classify"
    /\ ~GeometryType(features[idx].geometry).ok
    /\ result' = Raised(GeometryType(features[idx].geometry).val, 415)
    /\ db' = rollback(db)
    /\ pc' = "done"
    /\ UNCHANGED <<fields, input, features, idx, sid, klass, latlng, kwargs, counter,
                   before, status, reason>>

\* if not klass: continue
ClassifySkip ==
    /\ pc = "classify"
    /\ GeometryType(features[idx].geometry).ok
    /\ klass' = FEATURE_TO_MODEL(GeometryType(features[idx].geometry).val)
    /\ klass' = NoKlass
    /\ status' = [status EXCEPT ![idx] = "Skipped"]
    /\ reason' = [reason EXCEPT ![idx] = "UnsupportedGeometryKind"]
    /\ pc' = "loop"
    /\ UNCHANGED <<fields, input, features, idx, sid, latlng, kwargs, counter, db,
                   before, result>>

ClassifyOk ==
    /\ pc = "classify"
    /\ GeometryType(features[idx].geometry).ok
    /\ klass' = FEATURE_TO_MODEL(GeometryType(features[idx].geometry).val)
    /\ klass' # NoKlass
    /\ status' = [status EXCEPT ![idx] = "Classified"]
    /\ pc' = "normalize"
    /\ UNCHANGED <<fields, input, features, idx, sid, latlng, kwargs, counter, db,
                   before, reason, result>>

Normalized(i) ==
    NormalizeCoordinates(GeometryType(features[i].geometry).val,
                         features[i].geometry)

\* except Exception: continue
NormalizeSkip ==
    /\ pc = "normalize"
    /\ ~Normalized(idx).ok
    /\ status' = [status EXCEPT ![idx] = "Skipped"]
    /\ reason' = [reason EXCEPT ![idx] = "GeometryMalformed"]
    /\ pc' = "loop"
    /\ UNCHANGED <<fields, input, features, idx, sid, klass, latlng, kwargs, counter,
                   db, before, result>>

\* feature.geometry['coordinates'] = ...
NormalizeOk ==
    /\ pc = "normalize"
    /\ Normalized(idx).ok
    /\ features' = [features EXCEPT ![idx].geometry =
                        WithCoordinates(@, Normalized(idx).val)]
    /\ status' = [status EXCEPT ![idx] = "Normalized"]
    /\ pc' = "validate"
    /\ UNCHANGED <<fields, input, idx, sid, klass, latlng, kwargs, counter, db,
                   before, reason, result>>

\* a faulty variant: empty geometries are not rejected
IsEmpty_unchecked(o) == FALSE

\* whether a geometry the library built counts as empty (latlng.empty)
IsEmpty(o) == o = "empty"

\* GEOSGeometry(...) raises, or latlng.empty: continue
ValidateSkip ==
    /\ pc = "validate"
    /\ \E o \in GEOSOutcomes(features[idx].geometry.v.type.v,
                            features[idx].geometry.v.coordinates) :
          /\ o = "error" \/ IsEmpty(o)
          /\ reason' = [reason EXCEPT ![idx] =
                IF o = "error" THEN "GeometryMalformed" ELSE "GeometryEmpty"]
    /\ status' = [status EXCEPT ![idx] = "Skipped"]
    /\ pc' = "loop"
    /\ UNCHANGED <<fields, input, features, idx, sid, klass, latlng, kwargs, counter,
                   db, before, result>>

ValidateOk ==
    /\ pc = "validate"
    /\ \E o \in GEOSOutcomes(features[idx].geometry.v.type.v,
                            features[idx].geometry.v.coordinates) :
          o # "error" /\ ~IsEmpty(o)
    /\ latlng' = features[idx].geometry
    /\ status' = [status EXCEPT ![idx] = "Validated"]
    /\ pc' = "map"
    /\ UNCHANGED <<fields, input, features, idx, sid, klass, kwargs, counter, db,
                   before, reason, result>>

\* candidate in feature.properties, or feature.properties[candidate], raises
MapRaise ==
    /\ pc = "map"
    /\ ~BuildKwargs(klass, latlng, DataLayerRef, features[idx].properties).ok
    /\ result' = Raised("TypeError", 453)
    /\ db' = rollback(db)
    /\ pc' = "done"
    /\ UNCHANGED <<fields, input, features, idx, sid, klass, latlng, kwargs, counter,
                   before, status, reason>>

MapOk ==
    /\ pc = "map"
    /\ BuildKwargs(klass, latlng, DataLayerRef, features[idx].properties).ok
    /\ kwargs' =
          BuildKwargs(klass, latlng, DataLayerRef, features[idx].properties).val
    /\ status' = [status EXCEPT ![idx] = "Mapped"]
    /\ pc' = "create"
    /\ UNCHANGED <<fields, input, features, idx, sid, klass, latlng, counter, db,
                   before, reason, result>>

\* klass.objects.create(**kwargs)
Create ==
    /\ pc = "create"
    /\ \E o \in CreateOutcomes :
          /\ db' = AfterCreate(db, klass, kwargs, idx, o)
          /\ pc' = IF o = "created" THEN "savepoint_commit"
                   ELSE "savepoint_rollback"
    /\ UNCHANGED <<fields, input, features, idx, sid, klass, latlng, kwargs, counter,
                   before, status, reason, result>>

\* except Exception: transaction.savepoint_rollback(sid); continue
SavepointRollback ==
    /\ pc = "savepoint_rollback"
    /\ db' = savepoint_rollback(db, sid)
    /\ status' = [status EXCEPT ![idx] = "Skipped"]
    /\ reason' = [reason EXCEPT ![idx] = "PersistenceFailure"]
    /\ pc' = "loop"
    /\ UNCHANGED <<fields, input, features, idx, sid, klass, latlng, kwargs, counter,
                   before, result>>

\* else: transaction.savepoint_commit(sid); counter += 1
SavepointCommit ==
    /\ pc = "savepoint_commit"
    /\ db' = savepoint_commit(db, sid)
    /\ counter' = Increment(counter)
    /\ status' = [status EXCEPT ![idx] = "Committed"]
    /\ pc' = "loop"
    /\ UNCHANGED <<fields, input, features, idx, sid, klass, latlng, kwargs, before,
                   reason, result>>

\* transaction.commit() after the loop
CommitOk ==
    /\ pc = "loop"
    /\ idx >= Len(features)
    /\ db' = commit(db)
    /\ pc' = "respond"
    /\ UNCHANGED <<fields, input, features, idx, sid, klass, latlng, kwargs, counter,
                   before, status, reason, result>>

\* transaction.commit() raises (the database refuses, or is gone)
CommitFail ==
    /\ pc = "loop"
    /\ idx >= Len(features)
    /\ result' = Raised("DatabaseError", 474)
    /\ db' = rollback(db)
    /\ pc' = "done"
    /\ UNCHANGED <<fields, input, features, idx, sid, klass, latlng, kwargs, counter,
                   before, status, reason>>

\* if counter: ... else: ...; return simple_json_response(**kwargs)
Respond ==
    /\ pc = "respond"
    /\ result' = Response(counter, DataLayerRef)
    /\ pc' = "done"
    /\ UNCHANGED <<fields, input, features, idx, sid, klass, latlng, kwargs, counter,
                   db, before, status, reason>>

Next ==
    \/ StartFeature
    \/ ClassifyRaise \/ ClassifySkip \/ ClassifyOk
    \/ NormalizeSkip \/ NormalizeOk
    \/ ValidateSkip \/ ValidateOk
    \/ MapRaise \/ MapOk
    \/ Create \/ SavepointRollback \/ SavepointCommit
    \/ CommitOk \/ CommitFail
    \/ Respond

Spec == Init /\ [][Next]_vars

\* ------------------------------------------------------------------------
\* Normalization alone: one feature of a supported kind whose vertices all
\* have two or more numeric components, taken up to the end of the
\* "Remove altitude" block
\* ------------------------------------------------------------------------
MaxDim == 3
MaxVertices == 2
MaxRings == 2

\* the vertex (b+1, b+2, ..) of d components
Vertex(b, d) == PyList([i \in 1..d |-> PyNum(b + i)])

Vertices == {Vertex(b, d) : b \in {0, 10}, d \in 2..MaxDim}

RingVertices == {Vertex(0, d) : d \in 2..MaxDim}

ListsOf(S, n) == {PyList(q) : q \in UNION {[1..k -> S] : k \in 0..n}}

WellFormedGeometries ==
    {Geometry("Point", v) : v \in Vertices}
    \cup {Geometry("LineString", l) : l \in ListsOf(Vertices, MaxVertices)}
    \cup {Geometry("Polygon", p) :
             p \in ListsOf(ListsOf(RingVertices, MaxVertices), MaxRings)}

InitNorm ==
    /\ \E g \in WellFormedGeometries :
          input = <<Feature(g, Properties([name |-> TextA]))>>
    /\ fields = ModelFields
    /\ Entry

NextNorm == StartFeature \/ ClassifyOk \/ NormalizeOk

SpecNorm == InitNorm /\ [][NextNorm]_vars

\* ------------------------------------------------------------------------
\* Property mapping alone: one valid point whose properties hold any choice
\* of absent, empty or filled aliases, for any choice of which of
\* description and color the record kind has as a field, taken up to the
\* call of create
\* ------------------------------------------------------------------------
AliasKeys ==
    {"name", "title", "description", "desc", "text", "color", "hexcolor"}

\* a text of one character that tells the keys apart
ValueOf(k) ==
    PyUnicode(<<CASE k = "name" -> 110 [] k = "title" -> 116
                  [] k = "description" -> 100 [] k = "desc" -> 101
                  [] k = "text" -> 120 [] k = "color" -> 99
                  [] k = "hexcolor" -> 104 [] OTHER -> 102>>)

\* the properties where the aliases in filled have a text, those in empty
\* the empty text, and the keys outside the alias lists are there or not
PropertiesOf(filled, empty, others) ==
    PyDict([k \in PropKeys |->
               IF k \in filled THEN ValueOf(k)
               ELSE IF k \in empty THEN TextEmpty
               ELSE IF others /\ k = "foo" THEN ValueOf(k)
               ELSE IF others /\ k = "datalayer" THEN PyNum(2)
               ELSE Missing])

InitMap ==
    /\ \E filled \in SUBSET AliasKeys : \E empty \in SUBSET (AliasKeys \ filled) :
       \E others \in BOOLEAN :
          input = <<Feature(Geometry("Point", V2(100, 100)),
                            PropertiesOf(filled, empty, others))>>
    /\ \E S \in SUBSET {"description", "color"} : fields = BaseFields \cup S
    /\ Entry
    /\ before = << >>

NextMap == StartFeature \/ ClassifyOk \/ NormalizeOk \/ ValidateOk \/ MapOk

SpecMap == InitMap /\ [][NextMap]_vars

\* ------------------------------------------------------------------------
\* Decoding alone: one valid point whose name is a byte string, a text or a
\* number, taken up to the call of create
\* ------------------------------------------------------------------------
MaxBytes == 3

\* C, the two bytes of e-acute in UTF-8, and its one byte in Latin-1 (which
\* opens a sequence of three bytes in UTF-8)
ByteAlphabet == {67, 195, 169, 233}

ByteStrings == UNION {[1..n -> ByteAlphabet] : n \in 0..MaxBytes}

NameValues ==
    {PyBytes(b) : b \in ByteStrings}
    \cup {TextA, TextEmpty, PyUnicode(<<67, 233>>), PyNum(5)}

InitDecode ==
    /\ \E s \in NameValues :
          input = <<Feature(Geometry("Point", V2(100, 100)),
                            Properties([name |-> s]))>>
    /\ fields = ModelFields
    /\ Entry

SpecDecode == InitDecode /\ [][NextMap]_vars

\* ------------------------------------------------------------------------
\* Properties
\* ------------------------------------------------------------------------
Indices == 1..Len(input)

Terminal(i) == status[i] \in {"Committed", "Skipped"}

CommittedSet == {i \in Indices : status[i] = "Committed"}

\* the positions of the rows of feature i in a sequence of rows
RowsOf(rows, i) == {k \in 1..Len(rows) : rows[k].feature = i}

\* the rows the batch added to a sequence of rows
NewRows(rows) == {k \in 1..Len(rows) : rows[k].feature > 0}

RaisedAtCommit == result.kind = "Raised" /\ result.line = 474

RaisedInLoop == result.kind = "Raised" /\ result.line # 474

Returned == pc = "done" /\ result.kind # "Raised"

\* the rows before the upload are still the first rows
KeepsBefore(rows) ==
    Len(rows) >= Len(before) /\ SubSeq(rows, 1, Len(before)) = before

\* the type the form gave for feature i ("" when there is none)
InputType(i) ==
    IF GeometryType(input[i].geometry).ok
    THEN GeometryType(input[i].geometry).val ELSE ""

\* C1: when klass.objects.create raises for a feature, the rows of the
\* transaction after savepoint_rollback are the rows from before that
\* feature: the rows before the upload, then one complete row for each
\* earlier committed feature, and no row, complete or partial, of the
\* failed feature.
C1_RollbackRestoresStore ==
    \A i \in Indices :
        (/\ status[i] = "Skipped" /\ reason[i] = "PersistenceFailure"
         /\ result.kind # "Raised")
        => /\ RowsOf(db.txn, i) = {}
           /\ KeepsBefore(db.txn)
           /\ \A k \in 1..Len(db.txn) : ~db.txn[k].partial \/ pc = "savepoint_rollback"
           /\ \A j \in CommittedSet :
                 /\ Cardinality(RowsOf(db.txn, j)) = 1
                 /\ \A k \in RowsOf(db.txn, j) : ~db.txn[k].partial
           /\ (i = idx /\ pc = "loop")
                 => Len(db.txn) = Len(before) + Cardinality(CommittedSet)

C1_Witness ==
    /\ pc = "loop" /\ idx = 2
    /\ status[1] = "Committed"
    /\ status[2] = "Skipped" /\ reason[2] = "PersistenceFailure"
    /\ before = <<OldRow>>
    /\ Len(db.txn) = 2

\* C2: form_valid never ends by an exception because of one feature: a
\* feature that cannot be used is skipped and the loop goes on, so every
\* feature ends Committed or Skipped; only the final commit can raise.
C2_NoFeatureRaises ==
    /\ result.kind = "Raised" => result.line = 474
    /\ pc = "done" => \A i \in Indices : Terminal(i)

\* C3: a failed final commit rolls the whole batch back and is reported as
\* a failure, and nothing else ends the call by a failure.
C3_FatalOnlyAtCommit ==
    /\ RaisedAtCommit => db.durable = before /\ db.txn = before
    /\ pc = "done" /\ (\A i \in Indices : Terminal(i)) /\ db.commits = 0
          => RaisedAtCommit
    /\ ~RaisedInLoop

\* C4: counter is the number of features whose row was created and whose
\* savepoint was committed; when the call returns it is the number of
\* features minus the skipped ones.
SkipReasons ==
    {"UnsupportedGeometryKind", "GeometryMalformed", "GeometryEmpty",
     "PersistenceFailure"}

C4_CounterCountsCommitted ==
    /\ counter = Cardinality(CommittedSet)
    /\ result.kind # "Raised" /\ pc \in {"loop", "respond", "done"}
          => counter = Cardinality({k \in NewRows(db.txn) : ~db.txn[k].partial})
    /\ Returned =>
          counter = Len(input)
                    - Cardinality({i \in Indices : status[i] = "Skipped"
                                                   /\ reason[i] \in SkipReasons})

C4_Witness ==
    /\ Returned /\ Len(input) = 2 /\ counter = 1
    /\ \E i \in Indices : status[i] = "Skipped"

\* C5: after the loop and a successful commit the answer is Success, with
\* the count and the layer, exactly when counter > 0, and "No valid
\* feature" exactly when counter = 0, also for no feature at all.
C5_ResponseFollowsCounter ==
    Returned =>
        /\ db.commits = 1
        /\ result.kind \in {"Success", "NoValidFeatures"}
        /\ result.kind = "Success" <=> counter > 0
        /\ result.kind = "NoValidFeatures" <=> counter = 0
        /\ result.kind = "Success" =>
              /\ result.count = counter
              /\ result.layer = [id |-> DataLayerRef.id, name |-> DataLayerRef.name]
        /\ Len(input) = 0 => result.kind = "NoValidFeatures"

C5_Witness == Returned /\ result.kind = "Success" /\ result.count = 1

\* C6: once the commit succeeded the store holds the rows from before the
\* upload, then exactly one complete row for each committed feature and no
\* row for a skipped one; an all-invalid batch leaves it unchanged; the
\* batch [Point [2.35, 48.85, 35.0], Polygon []] leaves one new Marker at
\* (2.35, 48.85) and nothing for the polygon.
IsScenario == Len(input) = 2 /\ input[1] = Pool[1] /\ input[2] = Pool[4]

C6_StoreGainsCommittedOnly ==
    (pc \in {"respond", "done"} /\ result.kind # "Raised") =>
        /\ KeepsBefore(db.durable)
        /\ Len(db.durable) = Len(before) + Cardinality(CommittedSet)
        /\ \A k \in 1..Len(db.durable) : ~db.durable[k].partial
        /\ \A i \in Indices :
              Cardinality(RowsOf(db.durable, i))
                 = IF status[i] = "Committed" THEN 1 ELSE 0
        /\ \A i \in Indices :
              (\/ InputType(i) \notin {"Point", "LineString", "Polygon"}
               \/ input[i].geometry.v.coordinates.t # "list"
               \/ Len(input[i].geometry.v.coordinates.v) = 0)
              => RowsOf(db.durable, i) = {}
        /\ CommittedSet = {} => db.durable = before
        /\ IsScenario =>
              /\ RowsOf(db.durable, 2) = {}
              /\ \A k \in RowsOf(db.durable, 1) :
                    /\ db.durable[k].klass = "Marker"
                    /\ db.durable[k].latlng.v.coordinates = V2(235, 4885)

C6_Witness ==
    /\ Returned /\ IsScenario /\ before = <<OldRow>>
    /\ Len(db.durable) = 2
    /\ db.durable[2].klass = "Marker"
    /\ db.durable[2].latlng.v.coordinates = V2(235, 4885)

\* C7: the batch has one outer transaction: nothing is durable before the
\* commit, the commit happens once and only after the last feature, a
\* failed create undoes only its own feature, and after the commit all the
\* committed features' rows are durable together.
C7_SingleOuterCommit ==
    /\ db.commits <= 1
    /\ db.commits = 0 => db.durable = before
    /\ db.commits = 1 =>
          /\ pc \in {"respond", "done"}
          /\ idx = Len(input)
          /\ \A i \in Indices : Terminal(i)
          /\ db.durable = db.txn
          /\ \A i \in CommittedSet : RowsOf(db.durable, i) # {}
    /\ Returned => db.commits = 1
    /\ result.kind # "Raised" =>
          \A i \in CommittedSet : RowsOf(db.txn, i) # {}

C7_Witness ==
    /\ pc = "done" /\ db.commits = 1
    /\ \E i \in Indices : reason[i] = "PersistenceFailure"
    /\ \E i \in Indices : status[i] = "Committed" /\ RowsOf(db.durable, i) # {}

\* C8: the features are taken in the order of the input, one at a time and
\* each once: the features before the current one are Committed or Skipped,
\* those after it are untouched, and the rows of the batch are in the
\* order of their features.
InOrder ==
    /\ idx \in 0..Len(input)
    /\ \A i \in Indices :
          /\ i < idx => Terminal(i)
          /\ i > idx => status[i] = "Pending"
          /\ (i = idx /\ pc \in {"loop", "respond"}) => Terminal(i)
          /\ Cardinality(RowsOf(db.txn, i)) <= 1
    /\ \A k, l \in NewRows(db.txn) :
          k < l => db.txn[k].feature < db.txn[l].feature

C8_InOrderOnce ==
    /\ []InOrder
    /\ [][/\ idx' \in {idx, idx + 1}
          /\ idx' = idx + 1 => pc = "loop" /\ status'[idx'] = "Pending"
          /\ \A i \in Indices : Terminal(i) => status'[i] = status[i]]_vars

C8_Witness ==
    /\ pc = "loop" /\ idx = 2
    /\ Cardinality(NewRows(db.txn)) = 2

\* C9: a stored row has the record kind of the table Point -> Marker,
\* LineString -> Polyline, Polygon -> Polygon for its feature's geometry
\* kind; a feature of another kind is skipped without a row, the call goes
\* on after it, and it stays skipped.
TableKind(type) ==
    IF type = "Point" THEN "Marker"
    ELSE IF type = "LineString" THEN "Polyline"
    ELSE IF type = "Polygon" THEN "Polygon"
    ELSE "?"

UnsupportedKind(i) ==
    GeometryType(input[i].geometry).ok
    /\ InputType(i) \notin {"Point", "LineString", "Polygon"}

ClassifiedByTable ==
    /\ \A k \in NewRows(db.txn) :
          db.txn[k].klass = TableKind(InputType(db.txn[k].feature))
    /\ \A i \in Indices : UnsupportedKind(i) =>
          /\ RowsOf(db.txn, i) = {}
          /\ status[i] \in {"Pending", "Skipped"}
          /\ status[i] = "Skipped" => reason[i] = "UnsupportedGeometryKind"
          /\ (i < idx \/ (i = idx /\ pc # "classify")) => status[i] = "Skipped"
          /\ (i = idx /\ pc # "classify") => pc \in {"loop", "respond", "done"}
          /\ (i = idx /\ result.kind = "Raised") => result.line = 474

C9_ClassifierTable ==
    /\ []ClassifiedByTable
    /\ [][\A i \in Indices : status[i] = "Skipped" => status'[i] = "Skipped"]_vars

C9_Witness ==
    /\ idx = 2 /\ pc = "loop"
    /\ UnsupportedKind(1) /\ status[1] = "Skipped"
    /\ status[2] = "Committed"
    /\ \E k \in NewRows(db.txn) : db.txn[k].klass = "Polyline"

\* C10: for Point, LineString and Polygon coordinates whose vertices have
\* two or more numeric components, the "Remove altitude" block leaves the
\* same structure (as many rings and vertices, in the same order) with
\* every vertex cut to its first two components.
CutTo2(vin, vout) ==
    /\ vout.t = "list"
    /\ Len(vout.v) = 2
    /\ vout.v[1] = vin.v[1]
    /\ vout.v[2] = vin.v[2]

SameVerticesCut(lin, lout) ==
    /\ lout.t = "list"
    /\ Len(lout.v) = Len(lin.v)
    /\ \A i \in 1..Len(lin.v) : CutTo2(lin.v[i], lout.v[i])

SameRingsCut(pin, pout) ==
    /\ pout.t = "list"
    /\ Len(pout.v) = Len(pin.v)
    /\ \A i \in 1..Len(pin.v) : SameVerticesCut(pin.v[i], pout.v[i])

C10_NormalizationCutsToTwo ==
    (pc = "validate" /\ idx = 1) =>
        LET gin == input[1].geometry.v
            gout == features[1].geometry.v
        IN /\ gout.type = gin.type
           /\ gin.type.v = "Point" => CutTo2(gin.coordinates, gout.coordinates)
           /\ gin.type.v = "LineString" =>
                 SameVerticesCut(gin.coordinates, gout.coordinates)
           /\ gin.type.v = "Polygon" =>
                 SameRingsCut(gin.coordinates, gout.coordinates)

C10_Witness ==
    /\ pc = "validate" /\ idx = 1
    /\ input[1].geometry.v.type.v = "Polygon"
    /\ Len(input[1].geometry.v.coordinates.v) = 2
    /\ Len(input[1].geometry.v.coordinates.v[2].v) = 2
    /\ Len(input[1].geometry.v.coordinates.v[2].v[1].v) = 3
    /\ Len(features[1].geometry.v.coordinates.v[2].v[1].v) = 2

\* C11: the "Remove altitude" block is idempotent: coordinates that are
\* already two-dimensional come out unchanged, and running the block on
\* its own result gives that result again.
IsTwoD(v) == Len(v.v) = 2

AllTwoD(g) ==
    CASE g.type.v = "Point" -> IsTwoD(g.coordinates)
      [] g.type.v = "LineString" ->
            \A i \in 1..Len(g.coordinates.v) : IsTwoD(g.coordinates.v[i])
      [] g.type.v = "Polygon" ->
            \A i \in 1..Len(g.coordinates.v) :
               \A j \in 1..Len(g.coordinates.v[i].v) :
                  IsTwoD(g.coordinates.v[i].v[j])
      [] OTHER -> FALSE

C11_NormalizationIdempotent ==
    (pc = "validate" /\ idx = 1) =>
        LET gin == input[1].geometry
            gout == features[1].geometry
            again == NormalizeCoordinates(gout.v.type.v, gout)
        IN /\ again.ok
           /\ again.val = gout.v.coordinates
           /\ AllTwoD(gin.v) => gout = gin

C11_Witness ==
    /\ pc = "validate" /\ idx = 1
    /\ input[1].geometry.v.type.v = "LineString"
    /\ Len(input[1].geometry.v.coordinates.v) = 2
    /\ AllTwoD(input[1].geometry.v)
    /\ features[1].geometry = input[1].geometry

\* C12: for name (name, title), description (description, desc, text) and
\* color (color, hexcolor) the mapper takes the value of the first alias,
\* in that order, that the properties hold with a non-empty value; an
\* empty value is passed over like an absent one and the aliases after the
\* winner are not looked at.
Filled(i, k) ==
    /\ input[i].properties.v[k].t # "missing"
    /\ input[i].properties.v[k].t \in {"unicode", "bytes"}
          => Len(input[i].properties.v[k].v) > 0

PropertyOf(i, k) == input[i].properties.v[k]

FirstName(i) ==
    IF Filled(i, "name") THEN PropertyOf(i, "name")
    ELSE IF Filled(i, "title") THEN PropertyOf(i, "title")
    ELSE Missing

FirstDescription(i) ==
    IF Filled(i, "description") THEN PropertyOf(i, "description")
    ELSE IF Filled(i, "desc") THEN PropertyOf(i, "desc")
    ELSE IF Filled(i, "text") THEN PropertyOf(i, "text")
    ELSE Missing

FirstColor(i) ==
    IF Filled(i, "color") THEN PropertyOf(i, "color")
    ELSE IF Filled(i, "hexcolor") THEN PropertyOf(i, "hexcolor")
    ELSE Missing

InOptions(kw, n) == kw.options.t = "dict" /\ kw.options.v[n].t # "missing"

\* what the mapper kept for the field n: the option, or the named attribute
Landed(kw, n) == IF InOptions(kw, n) THEN kw.options.v[n] ELSE kw[n]

C12_FirstFilledAliasWins ==
    (pc = "create" /\ idx = 1) =>
        /\ FirstName(1).t # "missing" => Landed(kwargs, "name") = FirstName(1)
        /\ Landed(kwargs, "description") = FirstDescription(1)
        /\ Landed(kwargs, "color") = FirstColor(1)

C12_Witness ==
    /\ pc = "create" /\ idx = 1
    /\ PropertyOf(1, "description") = TextEmpty
    /\ PropertyOf(1, "desc") = ValueOf("desc")
    /\ PropertyOf(1, "text") = ValueOf("text")
    /\ Landed(kwargs, "description") = ValueOf("desc")

\* C13: the name given to create is the layer's name when neither name nor
\* title is in the properties with a non-empty value, the value of the
\* winning alias otherwise, and is never missing.
C13_NameDefaultsToLayerName ==
    (pc = "create" /\ idx = 1) =>
        /\ kwargs.name.t # "missing"
        /\ kwargs.name = IF FirstName(1).t = "missing" THEN DataLayerRef.name
                         ELSE FirstName(1)

C13_Witness ==
    /\ pc = "create" /\ idx = 1
    /\ PropertyOf(1, "name") = TextEmpty
    /\ PropertyOf(1, "title").t = "missing"
    /\ kwargs.name = DataLayerRef.name

\* C17: each of name, description, color is kept in one place: the named
\* attribute when the record kind has a field of that name, options when
\* it has not; options has no key that is also a filled named attribute,
\* and options exists only when it holds a value.
FirstOf(i, n) ==
    CASE n = "name" -> FirstName(i)
      [] n = "description" -> FirstDescription(i)
      [] n = "color" -> FirstColor(i)

DefaultOf(n) == IF n = "name" THEN DataLayerRef.name ELSE Missing

C17_OnePlacePerField ==
    (pc = "create" /\ idx = 1) =>
        /\ \A n \in {"name", "description", "color"} :
              /\ n \in fields =>
                    /\ ~InOptions(kwargs, n)
                    /\ FirstOf(1, n).t # "missing" => kwargs[n] = FirstOf(1, n)
              /\ n \notin fields =>
                    /\ kwargs[n] = DefaultOf(n)
                    /\ InOptions(kwargs, n) <=> FirstOf(1, n).t # "missing"
        /\ kwargs.options.t \in {"dict", "missing"}
        /\ kwargs.options.t = "dict" =>
              \E k \in OptionKeys : kwargs.options.v[k].t # "missing"

C17_Witness ==
    /\ pc = "create" /\ idx = 1
    /\ "color" \notin fields /\ "description" \in fields
    /\ InOptions(kwargs, "color")
    /\ kwargs.options.v["color"] = ValueOf("hexcolor")
    /\ kwargs.description = ValueOf("text")
    /\ ~InOptions(kwargs, "description")

\* C14 as the specification states it: a key of the properties that is in
\* no alias list is put into options under its own name.
C14_UnlistedKeyGoesToOptions ==
    (pc = "create" /\ idx = 1) =>
        \A k \in PropKeys \ AliasKeys :
            PropertyOf(1, k).t # "missing" =>
                /\ InOptions(kwargs, k)
                /\ kwargs.options.v[k] = PropertyOf(1, k)

\* C14, amended: a key of the properties that is in no alias list is not
\* read by the mapper; it goes neither into options nor into a named
\* attribute, options has keys among name, description and color only, and
\* the keyword arguments are those of the same properties without the key.
WithoutUnlisted(properties) ==
    PyDict([k \in PropKeys |->
               IF k \in AliasKeys THEN properties.v[k] ELSE Missing])

C14_UnlistedKeyIsIgnored ==
    (pc = "create" /\ idx = 1) =>
        /\ \A k \in OptionKeys \ {"name", "description", "color"} :
              ~InOptions(kwargs, k)
        /\ Ok(kwargs) = BuildKwargs(klass, latlng, DataLayerRef,
                                    WithoutUnlisted(input[1].properties))

C14_Witness ==
    /\ pc = "create" /\ idx = 1
    /\ PropertyOf(1, "foo") = ValueOf("foo")
    /\ "color" \notin fields
    /\ InOptions(kwargs, "color")
    /\ ~InOptions(kwargs, "foo")

\* C15: every row the call writes belongs to the layer of the request, also
\* when the feature's properties have a key datalayer, and the call neither
\* adds a layer nor changes one.
C15_RowsBelongToTheLayer ==
    /\ \A k \in NewRows(db.txn) : db.txn[k].datalayer = DataLayerRef.id
    /\ \A k \in NewRows(db.durable) : db.durable[k].datalayer = DataLayerRef.id
    /\ pc \in {"create", "savepoint_commit", "savepoint_rollback"} =>
          kwargs.datalayer = DataLayerRef.id
    /\ db.layers = <<DataLayerRef>>

C15_Witness ==
    /\ pc = "done"
    /\ result.kind = "Success"
    /\ \E k \in NewRows(db.durable) :
          /\ input[db.durable[k].feature].properties.t = "dict"
          /\ PropertyOf(db.durable[k].feature, "datalayer") = PyNum(2)
          /\ db.durable[k].datalayer = DataLayerRef.id
          /\ db.durable[k].klass = "Polygon"

\* C16: a feature goes Pending, Classified, Normalized, Validated, Mapped,
\* Committed in that order, or to Skipped from the step that failed;
\* Committed and Skipped are final, a skipped feature has no row and takes
\* no later step, and when the call has ended every feature of the batch
\* is Committed or Skipped.
LifecycleSteps ==
    {<<"Pending", "Classified">>, <<"Classified", "Normalized">>,
     <<"Normalized", "Validated">>, <<"Validated", "Mapped">>,
     <<"Mapped", "Committed">>}
    \cup {<<s, "Skipped">> :
             s \in {"Pending", "Classified", "Normalized", "Validated", "Mapped"}}

LifecycleStep ==
    \A i \in Indices :
        status'[i] # status[i] => <<status[i], status'[i]>> \in LifecycleSteps

SkippedHasNoRow ==
    \A i \in Indices : status[i] = "Skipped" => RowsOf(db.txn, i) = {}

C16_FeatureLifecycle ==
    /\ [][LifecycleStep]_vars
    /\ []SkippedHasNoRow
    /\ [](pc = "done" => \A i \in Indices :
             status[i] \in {"Committed", "Skipped"})

\* C18: smart_decode does not raise; a text is returned as it is; a byte
\* string is decoded as UTF-8 when it is valid UTF-8 and as Latin-1 (each
\* byte its code point) when it is not; a value that cannot be decoded is
\* returned as it was given.
C18_SmartDecodeFallsBack ==
    /\ (pc = "map" /\ idx = 1) =>
          BuildKwargs(klass, latlng, DataLayerRef, features[1].properties).ok
    /\ (pc = "create" /\ idx = 1 /\ Truthy(PropertyOf(1, "name"))) =>
          LET s == PropertyOf(1, "name") IN
          CASE s.t = "unicode" -> kwargs.name = s
            [] s.t = "bytes" ->
                  /\ kwargs.name.t = "unicode"
                  /\ kwargs.name.v = IF Utf8Strict(s.v).ok
                                     THEN Utf8Strict(s.v).val
                                     ELSE s.v
            [] OTHER -> kwargs.name = s

C18_Witness ==
    /\ pc = "create" /\ idx = 1
    /\ PropertyOf(1, "name") = PyBytes(<<67, 233>>)
    /\ ~Utf8Strict(<<67, 233>>).ok
    /\ Utf8Strict(<<67, 195, 169>>).val = <<67, 233>>
    /\ kwargs.name = PyUnicode(<<67, 233>>)

\* C19: the savepoint opened for a feature is closed, by savepoint_commit
\* or by savepoint_rollback, before the next one is opened: at the head of
\* the loop and at the final commit no savepoint of the call is open, and
\* there is never more than one.  (A savepoint that was rolled back to
\* stays known to the database; it counts as closed here.)
OpenSavepoints ==
    {k \in 1..Len(db.savepoints) :
        reason[db.savepoints[k].sid] # "PersistenceFailure"}

C19_SavepointsClosed ==
    /\ Cardinality(OpenSavepoints) <= 1
    /\ pc = "loop" => OpenSavepoints = {}

====
